---- MODULE Spec2Model ----
(***************************************************************************)
(* Model of the RAG pipeline of the Aimeet video-caller application:       *)
(*   - the query path of agora/rag_utils.py (generate_rag_response,        *)
(*     stream_rag_response, stream_rag_response_async with its worker      *)
(*     thread, hand-off queue and consumer generator);                     *)
(*   - the document ingestion path of agora/tasks.py,                      *)
(*     agora/document_processing.py and agora/embedding_utils.py, driven   *)
(*     by agora/views.py upload_document through an at-least-once task     *)
(*     queue.                                                              *)
(* A text is a sequence of atoms: one-character strings, and whole string  *)
(* literals of the program kept as one atom.                               *)
(***************************************************************************)
EXTENDS Integers, Sequences, FiniteSets, TLC

VARIABLES
    \* ---- query path (rag_utils.py) ----
    apiKeySet,    \* GOOGLE_API_KEY is a non-empty string
    quota,        \* number of questions the clients ask
    history,      \* ConversationHistory rows, in creation order
    nq,           \* number of queries started so far (the id of the current one)
    req,          \* the query being served: mode, scope, user, question, hits, context, prompt
    gen,          \* position of the caller / consumer of the answer
    worker,       \* position of the worker thread of stream_rag_response_async
    upSt,         \* position of the _google_generate_stream generator
    raw,          \* parts of the backend response read so far (the stub's output)
    yielded,      \* fragments _google_generate_stream has yielded so far
    fail,         \* the failure the generation backend call ran into, if any
    net,          \* network requests made to the generation backend by this query
    genCalls,     \* times the body of a generation backend function was entered by this query
    tokenQueue,   \* token_queue of stream_rag_response_async
    parts,        \* parts list of the consumer generator
    delivered,    \* fragments handed to the consumer (for the blocking call: the returned text)
    citations,    \* the relevant_chunks returned to the caller
    raised,       \* the exception the caller of the query observed, or "none"
    \* ---- ingestion path (tasks.py, document_processing.py, embedding_utils.py, views.py) ----
    docs,         \* DocumentUpload rows
    docChunks,    \* DocumentChunk rows, in creation order
    points,       \* points of the Qdrant collection, each with its vector id and payload
    collection,   \* the Qdrant collection: "absent", or the vector size it was created with
    taskQueue,    \* process_document_upload tasks enqueued and not yet acknowledged
    deliveries,   \* times each document's task was handed to a worker
    runs,         \* executions of process_document_upload: position and local variables
    view,         \* position of upload_document per document
    \* ---- meeting transcripts (views.py, rag_utils.py) and direct calls ----
    transcripts,      \* MeetingTranscript.transcript_text per meeting
    ragState,         \* MeetingRagState per meeting
    transcriptChunks, \* TranscriptChunk rows, in creation order
    prepQueue,        \* process_transcript_for_rag tasks enqueued by upload_recording
    recordings,       \* number of recordings uploaded so far
    preps,            \* executions of process_transcript_for_rag: position and local variables
    call,             \* the call of a helper under way or last returned, with what it returned
    \* ---- concurrent writers of the vector index (embedding_utils.py) ----
    jobs              \* executions of store_document_chunks_in_vector_db, step by step

queryVars == <<apiKeySet, quota, history, nq, req, gen, worker, upSt, raw, yielded, fail, net,
               genCalls, tokenQueue, parts, delivered, citations, raised>>
ingestVars == <<docs, docChunks, points, collection, taskQueue, deliveries, runs, view>>
meetingVars == <<transcripts, ragState, transcriptChunks, prepQueue, recordings, preps, call>>
storeVars == <<jobs>>
vars == <<queryVars, ingestVars, meetingVars, storeVars>>

----------------------------------------------------------------------------
(* Bounds of the model *)
MaxQueries == 1
MaxParts == 2
MaxDeliveries == 2
MaxRecordings == 2
MaxPreps == 2
MaxTurns == 3

(* Program constants *)
MAX_CONVERSATION_TURNS == 5

----------------------------------------------------------------------------
(* Texts *)

SP == " "
NO_INFO == <<"Sorry, I couldn't find relevant information in the available documents or transcripts.">>
THINKING == <<"Thinking...\n">>
TIMEOUT_SENTINEL == <<"\n[Model timed out. Try again.]">>
ERROR_SENTINEL == <<"\n[Model error. Please try again.]">>

RECURSIVE Join(_)
\* "".join(list)
Join(texts) == IF texts = <<>> THEN <<>> ELSE Head(texts) \o Join(Tail(texts))

RECURSIVE LStrip(_)
LStrip(t) == IF t # <<>> /\ Head(t) = SP THEN LStrip(Tail(t)) ELSE t

RECURSIVE RStrip(_)
RStrip(t) == IF t # <<>> /\ t[Len(t)] = SP THEN RStrip(SubSeq(t, 1, Len(t) - 1)) ELSE t

\* str.strip()
Strip(t) == RStrip(LStrip(t))

----------------------------------------------------------------------------
(* Inputs of the query path *)

NoMeeting == "None"
Meetings == {"m1"}
Users == {"u1"}
Questions == {<<"q">>}
Modes == {"sync", "stream", "async"}

\* what search_similar_chunks can return: formatted hits, best first
HitLists ==
    { <<>>,
      << [chunk_index |-> 1, text |-> <<"b">>, source_type |-> "document", document_name |-> "d.txt"],
         [chunk_index |-> 0, text |-> <<"a">>, source_type |-> "meeting_transcript", document_name |-> "None"] >> }

\* the text of one part of a backend response
Fragments == { <<>>, <<"a">>, <<SP, "a">> }

\* the parts of a whole backend response
PartSeqs == UNION { [1..n -> Fragments] : n \in 0..MaxParts }

TransportFailures == {"ReadTimeout", "RequestException"}
FailKinds == TransportFailures \cup {"Other"}

NoRequest ==
    [mode |-> "none", meeting |-> NoMeeting, user |-> "none", query |-> <<>>,
     hits |-> <<>>, readOk |-> TRUE, context |-> <<>>, prompt |-> <<>>, save |-> "none"]

Token(t) == [kind |-> "token", text |-> t]
stop_marker == [kind |-> "stop", text |-> <<>>]

----------------------------------------------------------------------------
(* Conversation memory *)

Min(a, b) == IF a < b THEN a ELSE b

RECURSIVE ExpandTurns(_)
\* each turn becomes a user entry followed by an assistant entry
ExpandTurns(turns) ==
    IF turns = <<>> THEN <<>>
    ELSE << [role |-> "user", content |-> Head(turns).user_question],
            [role |-> "assistant", content |-> Head(turns).assistant_response] >>
         \o ExpandTurns(Tail(turns))

\* a variant of GetConversationContext that takes the oldest turns
GetConversationContextOldest(h, meeting_id, user_id, limit, readOk) ==
    LET mine == SelectSeq(h, LAMBDA t:
                    t.user = user_id /\ (meeting_id # NoMeeting => t.meeting = meeting_id))
    IN  IF readOk THEN ExpandTurns(SubSeq(mine, 1, Min(limit, Len(mine)))) ELSE <<>>

\* a variant of GetConversationContext that returns what it has when the read fails
GetConversationContextUnguarded(h, meeting_id, user_id, limit, readOk) ==
    LET mine == SelectSeq(h, LAMBDA t:
                    t.user = user_id /\ (meeting_id # NoMeeting => t.meeting = meeting_id))
        n == Min(limit, Len(mine))
    IN  ExpandTurns(SubSeq(mine, Len(mine) - n + 1, Len(mine)))

\* get_conversation_context: the newest `limit` turns of the user (of the meeting, when one
\* is given), oldest first; [] when the read fails
GetConversationContext(h, meeting_id, user_id, limit, readOk) ==
    LET mine == SelectSeq(h, LAMBDA t:
                    t.user = user_id /\ (meeting_id # NoMeeting => t.meeting = meeting_id))
        n == Min(limit, Len(mine))
        recent == SubSeq(mine, Len(mine) - n + 1, Len(mine))
    IN  IF readOk THEN ExpandTurns(recent) ELSE <<>>

RECURSIVE ChunkIndexes(_)
\* [chunk['chunk_index'] for chunk in relevant_chunks]
ChunkIndexes(hits) ==
    IF hits = <<>> THEN <<>> ELSE <<Head(hits).chunk_index>> \o ChunkIndexes(Tail(hits))

\* a variant of SaveConversationTurn without the test of the scope
SaveConversationTurnAnyScope(h, qid, meeting_id, user_id, query, assistant_response, relevant_chunks, saveOk) ==
    IF saveOk
    THEN Append(h, [qid |-> qid, meeting |-> meeting_id, user |-> user_id,
                    user_question |-> query,
                    assistant_response |-> assistant_response,
                    relevant_chunks |-> ChunkIndexes(relevant_chunks)])
    ELSE h

\* _save_conversation_turn: nothing for a global query; a failing write is swallowed
SaveConversationTurn(h, qid, meeting_id, user_id, query, assistant_response, relevant_chunks, saveOk) ==
    IF meeting_id = NoMeeting THEN h
    ELSE IF saveOk
         THEN Append(h, [qid |-> qid, meeting |-> meeting_id, user |-> user_id,
                         user_question |-> query,
                         assistant_response |-> assistant_response,
                         relevant_chunks |-> ChunkIndexes(relevant_chunks)])
         ELSE h

\* how a call of _save_conversation_turn ends
SaveOutcome(meeting_id, saveOk) ==
    IF meeting_id = NoMeeting THEN "skipped" ELSE IF saveOk THEN "saved" ELSE "failed"

----------------------------------------------------------------------------
(* Prompt assembly *)

RECURSIVE ChunksText(_)
\* "\n\n".join("[Source: .., Chunk .., Doc: ..] text" for chunk in relevant_chunks)
ChunksText(hits) ==
    IF hits = <<>> THEN <<>>
    ELSE LET c == Head(hits)
             one == <<"[Source: ", c.source_type, ", Chunk ", ToString(c.chunk_index),
                      ", Doc: ", c.document_name, "] ">> \o c.text
         IN  IF Tail(hits) = <<>> THEN one ELSE one \o <<"\n\n">> \o ChunksText(Tail(hits))

SystemPrompt(hits) ==
    <<"You are a helpful assistant ... RELEVANT TRANSCRIPT SECTIONS:\n">>
    \o ChunksText(hits)
    \o <<"\n\nAnswer the user's question based ONLY on the provided transcript sections. ...">>

RECURSIVE ConversationLines(_)
ConversationLines(ctx) ==
    IF ctx = <<>> THEN <<>>
    ELSE <<"\n", IF Head(ctx).role = "assistant" THEN "ASSISTANT" ELSE "USER", ": ">>
         \o Strip(Head(ctx).content) \o ConversationLines(Tail(ctx))

\* a variant of BuildGooglePrompt that leaves the conversation out
BuildGooglePromptNoConversation(system_prompt, conversation_context, query) ==
    <<"SYSTEM:", "\n">> \o Strip(system_prompt)
    \o <<"\n", "\nUSER QUESTION:", "\n">> \o Strip(query)
    \o <<"\n", "\nASSISTANT:">>

\* _build_google_prompt: "\n".join(parts)
BuildGooglePrompt(system_prompt, conversation_context, query) ==
    <<"SYSTEM:", "\n">> \o Strip(system_prompt)
    \o (IF conversation_context # <<>>
        THEN <<"\n", "\nCONVERSATION:">> \o ConversationLines(conversation_context)
        ELSE <<>>)
    \o <<"\n", "\nUSER QUESTION:", "\n">> \o Strip(query)
    \o <<"\n", "\nASSISTANT:">>

----------------------------------------------------------------------------
(* Generation backend *)

\* the non-empty part texts of a response, in order
TextParts(rsp) == SelectSeq(rsp, LAMBDA p: p # <<>>)

\* _google_generate on a response that arrived: "".join(text_parts).strip()
GoogleGenerate(rsp) == Strip(Join(TextParts(rsp)))

\* the sentinel _google_generate_stream yields on a transport failure
Sentinel(kind) == IF kind = "ReadTimeout" THEN TIMEOUT_SENTINEL ELSE ERROR_SENTINEL

UpEvent(st, r, tok, exc, stop, n, f) ==
    [st |-> st, raw |-> r, tok |-> tok, exc |-> exc, stop |-> stop, net |-> n, fail |-> f]

\* a variant of OnTransportFailure that lets the failure escape the generator
OnTransportFailureRaises(k, n) == UpEvent("raised", raw, <<>>, k, FALSE, n, k)

\* _google_generate_stream, the two except clauses: the failure is logged and the sentinel
\* yielded, after which the generator is exhausted
OnTransportFailure(k, n) == UpEvent("spent", raw, <<Sentinel(k)>>, "none", FALSE, n, k)

\* _google_generate_stream: what one step of the generator can do from its position.
\*   tok: the fragment it yields (none: <<>>), exc: the exception it raises,
\*   stop: it is exhausted, net: requests sent so far, fail: the failure met.
GoogleGenerateStream ==
    IF upSt = "fresh"
    THEN IF ~apiKeySet
         THEN { UpEvent("raised", raw, <<>>, "NotConfigured", FALSE, net, "NotConfigured") }
         ELSE { UpEvent("open", raw, <<>>, "none", FALSE, net + 1, fail) }
              \cup { OnTransportFailure(k, net + 1) : k \in TransportFailures }
    ELSE IF upSt = "open"
    THEN { UpEvent("open", Append(raw, p), IF p # <<>> THEN <<p>> ELSE <<>>, "none", FALSE, net, fail)
           : p \in IF Len(raw) < MaxParts THEN Fragments ELSE {} }
         \cup { UpEvent("closed", raw, <<>>, "none", TRUE, net, fail) }
         \cup { OnTransportFailure(k, net) : k \in TransportFailures }
         \cup { UpEvent("raised", raw, <<>>, "Other", FALSE, net, "Other") }
    ELSE IF upSt = "spent"
    THEN { UpEvent("closed", raw, <<>>, "none", TRUE, net, fail) }
    ELSE {}

----------------------------------------------------------------------------
(* The query path: generate_rag_response, stream_rag_response, stream_rag_response_async *)

\* no question has been asked
NoQueryYet ==
    /\ apiKeySet \in BOOLEAN
    /\ history = <<>>
    /\ nq = 0
    /\ req = NoRequest
    /\ gen = "none"
    /\ worker = "none"
    /\ upSt = "none"
    /\ raw = <<>>
    /\ yielded = <<>>
    /\ fail = "none"
    /\ net = 0
    /\ genCalls = 0
    /\ tokenQueue = <<>>
    /\ parts = <<>>
    /\ delivered = <<>>
    /\ citations = <<>>
    /\ raised = "none"

InitQuery == quota = MaxQueries /\ NoQueryYet

\* no query is being served: the next request can arrive
QueryIdle == gen \in {"none", "done", "raised"} /\ worker \in {"none", "done"}

\* a variant of NoRelevantChunks that never short-circuits
NoRelevantChunksNever(relevant_chunks) == FALSE

\* `if not relevant_chunks`
NoRelevantChunks(relevant_chunks) == relevant_chunks = <<>>

\* a variant of QueuePut that puts the item at the head of the queue
QueuePutFront(q, item) == <<item>> \o q

\* token_queue.put(item)
QueuePut(q, item) == Append(q, item)

\* a variant of AssistantResponse that keeps the last fragment only
AssistantResponseLastToken(ps) == IF ps = <<>> THEN <<>> ELSE ps[Len(ps)]

\* assistant_response = "".join(parts)
AssistantResponse(ps) == Join(ps)

\* the request as the entry points build it, steps 1 to 4
Request(mode, meeting_id, user_id, query, hits, readOk) ==
    LET ctx == GetConversationContext(history, meeting_id, user_id, MAX_CONVERSATION_TURNS, readOk)
    IN  [mode |-> mode, meeting |-> meeting_id, user |-> user_id, query |-> query,
         hits |-> hits, readOk |-> readOk, context |-> ctx,
         prompt |-> BuildGooglePrompt(SystemPrompt(hits), ctx, query), save |-> "none"]

\* any entry point, when the search returns nothing: the fixed answer, no generation
QueryNoHits ==
    /\ QueryIdle /\ nq < quota
    /\ \E mode \in Modes, meeting_id \in Meetings \cup {NoMeeting}, user_id \in Users,
          query \in Questions, hits \in HitLists :
        /\ NoRelevantChunks(hits)
        /\ req' = [NoRequest EXCEPT !.mode = mode, !.meeting = meeting_id, !.user = user_id,
                                    !.query = query, !.hits = hits]
    /\ nq' = nq + 1
    /\ gen' = "done" /\ worker' = "none" /\ upSt' = "none"
    /\ raw' = <<>> /\ yielded' = <<>> /\ fail' = "none" /\ net' = 0 /\ genCalls' = 0
    /\ tokenQueue' = <<>> /\ parts' = <<>>
    /\ delivered' = <<NO_INFO>> /\ citations' = <<>> /\ raised' = "none"
    /\ UNCHANGED <<apiKeySet, quota, history, ingestVars, meetingVars, storeVars>>

\* generate_rag_response with hits: one blocking call of _google_generate, then the save
GenerateRagResponse ==
    /\ QueryIdle /\ nq < quota
    /\ \E meeting_id \in Meetings \cup {NoMeeting}, user_id \in Users, query \in Questions,
          hits \in HitLists, readOk \in BOOLEAN, saveOk \in BOOLEAN,
          rsp \in PartSeqs, f \in FailKinds \cup {"none"} :
        /\ ~NoRelevantChunks(hits)
        /\ f # "none" => rsp = <<>>
        /\ req' = [Request("sync", meeting_id, user_id, query, hits, readOk) EXCEPT
                      !.save = IF apiKeySet /\ f = "none"
                               THEN SaveOutcome(meeting_id, saveOk) ELSE "none"]
        /\ IF ~apiKeySet
           THEN \* raise ValueError("GOOGLE_API_KEY is not configured")
                /\ f = "none" /\ rsp = <<>>
                /\ raised' = "NotConfigured" /\ fail' = "NotConfigured" /\ net' = 0
                /\ gen' = "raised" /\ raw' = <<>> /\ delivered' = <<>> /\ citations' = <<>>
                /\ history' = history
           ELSE IF f # "none"
           THEN \* the request fails or the body is no JSON: logged and raised again
                /\ raised' = f /\ fail' = f /\ net' = 1
                /\ gen' = "raised" /\ raw' = <<>> /\ delivered' = <<>> /\ citations' = <<>>
                /\ history' = history
           ELSE /\ raised' = "none" /\ fail' = "none" /\ net' = 1
                /\ gen' = "done" /\ raw' = rsp
                /\ delivered' = <<GoogleGenerate(rsp)>> /\ citations' = hits
                /\ history' = SaveConversationTurn(history, nq + 1, meeting_id, user_id, query,
                                                   GoogleGenerate(rsp), hits, saveOk)
    /\ nq' = nq + 1
    /\ genCalls' = 1
    /\ worker' = "none" /\ upSt' = "none" /\ yielded' = <<>>
    /\ tokenQueue' = <<>> /\ parts' = <<>>
    /\ UNCHANGED <<apiKeySet, quota, ingestVars, meetingVars, storeVars>>

\* stream_rag_response / stream_rag_response_async with hits: returns (generator(), hits);
\* the async variant starts the worker thread first
StartStream(mode) ==
    /\ QueryIdle /\ nq < quota
    /\ \E meeting_id \in Meetings \cup {NoMeeting}, user_id \in Users, query \in Questions,
          hits \in HitLists, readOk \in BOOLEAN :
        /\ ~NoRelevantChunks(hits)
        /\ req' = Request(mode, meeting_id, user_id, query, hits, readOk)
        /\ citations' = hits
    /\ nq' = nq + 1
    /\ gen' = "created" /\ upSt' = "fresh"
    /\ worker' = IF mode = "async" THEN "loop" ELSE "none"
    /\ raw' = <<>> /\ yielded' = <<>> /\ fail' = "none" /\ net' = 0 /\ genCalls' = 0
    /\ tokenQueue' = <<>> /\ parts' = <<>> /\ delivered' = <<>> /\ raised' = "none"
    /\ UNCHANGED <<apiKeySet, quota, history, ingestVars, meetingVars, storeVars>>

StreamRagResponse == StartStream("stream")

StreamRagResponseAsync == StartStream("async")

\* worker(): for token in _google_generate_stream(prompt): token_queue.put(token)
Worker ==
    /\ worker = "loop"
    /\ \E ev \in GoogleGenerateStream :
        /\ upSt' = ev.st /\ raw' = ev.raw /\ net' = ev.net /\ fail' = ev.fail
        /\ yielded' = yielded \o ev.tok
        /\ tokenQueue' = IF ev.tok # <<>> THEN QueuePut(tokenQueue, Token(ev.tok[1]))
                         ELSE tokenQueue
        /\ worker' = IF ev.exc # "none" THEN "except"
                     ELSE IF ev.stop THEN "finally" ELSE "loop"
    /\ genCalls' = 1
    /\ UNCHANGED <<apiKeySet, quota, history, nq, req, gen, parts, delivered, citations, raised,
                   ingestVars, meetingVars, storeVars>>

\* worker(): except Exception: token_queue.put("\n[Model error. Please try again.]")
WorkerExcept ==
    /\ worker = "except"
    /\ tokenQueue' = QueuePut(tokenQueue, Token(ERROR_SENTINEL))
    /\ worker' = "finally"
    /\ UNCHANGED <<apiKeySet, quota, history, nq, req, gen, upSt, raw, yielded, fail, net, genCalls,
                   parts, delivered, citations, raised, ingestVars, meetingVars, storeVars>>

\* worker(): finally: token_queue.put(stop_marker)
WorkerFinally ==
    /\ worker = "finally"
    /\ tokenQueue' = QueuePut(tokenQueue, stop_marker)
    /\ worker' = "done"
    /\ UNCHANGED <<apiKeySet, quota, history, nq, req, gen, upSt, raw, yielded, fail, net, genCalls,
                   parts, delivered, citations, raised, ingestVars, meetingVars, storeVars>>

\* generator(): yield "Thinking...\n"
GeneratorThinking ==
    /\ gen = "created"
    /\ delivered' = <<THINKING>>
    /\ gen' = "loop"
    /\ UNCHANGED <<apiKeySet, quota, history, nq, req, worker, upSt, raw, yielded, fail, net, genCalls,
                   tokenQueue, parts, citations, raised, ingestVars, meetingVars, storeVars>>

\* a variant of IsStopMarker that takes no item for the stop marker
IsStopMarkerNever(item) == FALSE

\* generator() of stream_rag_response_async: `if item is stop_marker`
IsStopMarker(item) == item = stop_marker

\* generator() of stream_rag_response_async: item = token_queue.get(); on the stop marker
\* leave the loop and save the turn, else parts.append(item); yield item
AsyncGeneratorGet ==
    /\ req.mode = "async" /\ gen = "loop"
    /\ tokenQueue # <<>>
    /\ tokenQueue' = Tail(tokenQueue)
    /\ IF IsStopMarker(Head(tokenQueue))
       THEN /\ \E saveOk \in BOOLEAN :
                /\ history' = SaveConversationTurn(history, nq, req.meeting, req.user,
                                                   req.query, AssistantResponse(parts),
                                                   req.hits, saveOk)
                /\ req' = [req EXCEPT !.save = SaveOutcome(req.meeting, saveOk)]
            /\ gen' = "done"
            /\ UNCHANGED <<parts, delivered>>
       ELSE /\ parts' = Append(parts, Head(tokenQueue).text)
            /\ delivered' = Append(delivered, Head(tokenQueue).text)
            /\ UNCHANGED <<history, gen, req>>
    /\ UNCHANGED <<apiKeySet, quota, nq, worker, upSt, raw, yielded, fail, net, genCalls,
                   citations, raised, ingestVars, meetingVars, storeVars>>

\* generator() of stream_rag_response: for token in _google_generate_stream(prompt):
\* parts.append(token); yield token; after the loop save the turn
GeneratorPull ==
    /\ req.mode = "stream" /\ gen = "loop"
    /\ \E ev \in GoogleGenerateStream :
        /\ upSt' = ev.st /\ raw' = ev.raw /\ net' = ev.net /\ fail' = ev.fail
        /\ yielded' = yielded \o ev.tok
        /\ parts' = parts \o ev.tok
        /\ delivered' = delivered \o ev.tok
        /\ IF ev.exc # "none"
           THEN gen' = "raised" /\ raised' = ev.exc /\ UNCHANGED <<history, req>>
           ELSE IF ev.stop
           THEN /\ \E saveOk \in BOOLEAN :
                    /\ history' = SaveConversationTurn(history, nq, req.meeting, req.user,
                                                       req.query, AssistantResponse(parts),
                                                       req.hits, saveOk)
                    /\ req' = [req EXCEPT !.save = SaveOutcome(req.meeting, saveOk)]
                /\ gen' = "done" /\ raised' = raised
           ELSE UNCHANGED <<gen, raised, history, req>>
    /\ genCalls' = 1
    /\ UNCHANGED <<apiKeySet, quota, nq, worker, tokenQueue, citations, ingestVars, meetingVars, storeVars>>

\* a variant of GeneratorExit that runs the statements after the loop and saves the turn
GeneratorExitSaves(h, qid, r, ps) ==
    SaveConversationTurn(h, qid, r.meeting, r.user, r.query, AssistantResponse(ps),
                         r.hits, TRUE)

\* the stored turns after a generator() is closed at a yield: GeneratorExit is raised
\* there, so the statements after the loop, the save among them, are not executed
GeneratorExit(h, qid, r, ps) == h

\* the consumer of a streaming answer stops reading before the stream has ended: the
\* generator is closed where it is suspended; the worker thread, if any, is not told
ConsumerStops ==
    /\ req.mode \in {"stream", "async"}
    /\ gen \in {"created", "loop"}
    /\ gen' = "closed"
    /\ history' = GeneratorExit(history, nq, req, parts)
    /\ UNCHANGED <<apiKeySet, quota, nq, req, worker, upSt, raw, yielded, fail, net, genCalls,
                   tokenQueue, parts, delivered, citations, raised,
                   ingestVars, meetingVars, storeVars>>

NextQuery ==
    \/ QueryNoHits
    \/ GenerateRagResponse
    \/ StreamRagResponse
    \/ StreamRagResponseAsync
    \/ Worker
    \/ WorkerExcept
    \/ WorkerFinally
    \/ GeneratorThinking
    \/ AsyncGeneratorGet
    \/ GeneratorPull

----------------------------------------------------------------------------
(* Inputs of the ingestion path *)

Docs == {"d1"}

\* file extensions of uploads; the last is outside ALLOWED_EXTENSIONS
ALLOWED_EXTENSIONS == {".pdf", ".txt", ".doc", ".docx", ".mp3"}
Exts == {".txt", ".mp3", ".pdf", ".exe"}

\* The content of a file, as the sequence of pieces the splitter can cut it into (pieces too
\* long to be merged into one chunk): blank only, one piece, two pieces around a blank one.
FileTexts == { << <<SP>> >>, << <<"a">> >>, << <<"a">>, <<SP>>, <<"b">> >> }

\* vector sizes: that of the embedding model, and another one
EmbeddingDimension == "size_of_model"
VectorSizes == {EmbeddingDimension, "size_of_other_model"}

NoneValue == "None"

NoDocument ==
    [exists |-> FALSE, meeting |-> NoMeeting, ext |-> "", file |-> <<>>, status |-> "",
     error_message |-> NoneValue, s3_url |-> FALSE, raw_text |-> <<>>,
     processed_at |-> FALSE, embeddings_created_at |-> FALSE, chunk_count |-> 0]

Runs == Docs \X (1..MaxDeliveries)

\* an execution of process_document_upload: its position, its local variables, and once it
\* has returned (its local variables are gone) how it ended
NoRun ==
    [pc |-> "none", s3 |-> FALSE, chunks |-> <<>>, idx |-> 0, err |-> "none", result |-> "none"]

\* return from process_document_upload
Return(result) == [NoRun EXCEPT !.pc = "done", !.result = result]

\* chunk_transcript: the stripped pieces of the text that are not blank, in order
ChunkTranscript(text) ==
    LET stripped == [i \in 1..Len(text) |-> Strip(text[i])]
    IN  SelectSeq(stripped, LAMBDA c: c # <<>>)

\* uuid5(NAMESPACE_URL, f"document:{document.id}:{idx}")
DocumentVectorId(document_id, idx) == <<"document:", document_id, ":", ToString(idx)>>

\* the points store_document_chunks_in_vector_db upserts for the chunks of a document
DocumentPoints(meeting_id, document_id, chunks) ==
    { [id |-> DocumentVectorId(document_id, i - 1),
       meeting_id |-> meeting_id, document_id |-> document_id,
       chunk_index |-> i - 1, text |-> chunks[i], source_type |-> "document"]
      : i \in 1..Len(chunks) }

\* an upsert: a point whose id is already there is replaced
AddTexts(pts, new) == { p \in pts : \A n \in new : n.id # p.id } \cup new

\* ensure_collection_exists: create the collection when absent, recreate it when its size
\* differs from the embedding dimension
EnsureCollectionExists(c) == IF c # EmbeddingDimension THEN EmbeddingDimension ELSE c

\* the points left after ensure_collection_exists: none when the collection was (re)created
PointsAfterEnsure(c, pts) == IF c # EmbeddingDimension THEN {} ELSE pts

\* the DocumentChunk rows of a document
ChunksOf(d) == SelectSeq(docChunks, LAMBDA c: c.document = d)

\* the vector ids in the index that belong to a document
VectorIdsOf(d) == { p.id : p \in { x \in points : x.document_id = d } }

----------------------------------------------------------------------------
(* upload_document, the task queue and process_document_upload *)

\* no document has been uploaded
InitDocuments ==
    /\ docs = [d \in Docs |-> NoDocument]
    /\ docChunks = <<>>
    /\ taskQueue = {}
    /\ deliveries = [d \in Docs |-> 0]
    /\ runs = [r \in Runs |-> NoRun]
    /\ view = [d \in Docs |-> "none"]

InitIngest ==
    /\ InitDocuments
    /\ points = {}
    /\ collection \in {"absent"} \cup VectorSizes

\* upload_document up to async_task(...): the row is created with status 'uploaded' and the
\* task enqueued; when that raises, the handler marks the document failed
UploadDocument(d) ==
    /\ view[d] = "none"
    /\ \E ext \in Exts, file \in FileTexts, enqueued \in BOOLEAN :
        IF enqueued
        THEN /\ docs' = [docs EXCEPT ![d] = [NoDocument EXCEPT !.exists = TRUE,
                             !.meeting = "m1", !.ext = ext, !.file = file,
                             !.status = "uploaded"]]
             /\ taskQueue' = taskQueue \cup {d}
             /\ view' = [view EXCEPT ![d] = "enqueued"]
        ELSE /\ docs' = [docs EXCEPT ![d] = [NoDocument EXCEPT !.exists = TRUE,
                             !.meeting = "m1", !.ext = ext, !.file = file,
                             !.status = "failed", !.error_message = "async_task failed"]]
             /\ taskQueue' = taskQueue
             /\ view' = [view EXCEPT ![d] = "done"]
    /\ UNCHANGED <<docChunks, points, collection, deliveries, runs, queryVars, meetingVars, storeVars>>

\* upload_document after async_task(...): document.status = 'queued'; save(["status"])
UploadDocumentQueued(d) ==
    /\ view[d] = "enqueued"
    /\ docs' = [docs EXCEPT ![d].status = "queued"]
    /\ view' = [view EXCEPT ![d] = "done"]
    /\ UNCHANGED <<docChunks, points, collection, taskQueue, deliveries, runs, queryVars, meetingVars, storeVars>>

\* the task queue hands the task of document d to a worker; delivery is at least once, so
\* an enqueued task can be handed out again, also while an earlier execution still runs
Deliver(d) ==
    /\ d \in taskQueue
    /\ deliveries[d] < MaxDeliveries
    /\ deliveries' = [deliveries EXCEPT ![d] = @ + 1]
    /\ runs' = [runs EXCEPT ![<<d, deliveries[d] + 1>>] = [NoRun EXCEPT !.pc = "start"]]
    /\ UNCHANGED <<docs, docChunks, points, collection, taskQueue, view, queryVars, meetingVars, storeVars>>

\* a variant of Raise that records the cause and goes on with the persist step
RaiseAndGoOn(run, cause) == [run EXCEPT !.pc = "create", !.err = cause]

\* raise inside the try block of process_document_upload: control goes to its handler
Raise(run, cause) == [run EXCEPT !.pc = "except", !.err = cause]

\* the fields the start of process_document_upload saves
MarkProcessing(doc) == [doc EXCEPT !.status = "processing", !.error_message = NoneValue]

\* the fields the success path of process_document_upload saves
MarkCompleted(doc, chunk_count) ==
    [doc EXCEPT !.status = "completed", !.chunk_count = chunk_count, !.processed_at = TRUE]

\* a variant of MarkFailed that records the message and leaves the status
MarkFailedMessageOnly(doc, cause) == [doc EXCEPT !.error_message = cause]

\* the fields the exception handler of process_document_upload saves
MarkFailed(doc, cause) == [doc EXCEPT !.status = "failed", !.error_message = cause]

\* a variant of StoreChunksThen that stamps the document before the upsert
StoreChunksThenStampFirst(step) ==
    IF step = "create" THEN "stamp" ELSE IF step = "stamp" THEN "upsert" ELSE "complete"

\* _store_chunks: what follows each of its steps (the loop creating the rows, the upsert,
\* the stamp); after the last one control is back in process_document_upload
StoreChunksThen(step) ==
    IF step = "create" THEN "upsert" ELSE IF step = "upsert" THEN "stamp" ELSE "complete"

\* process_document_upload, lines 16-26
Begin(r) ==
    /\ runs[r].pc = "start"
    /\ IF ~docs[r[1]].exists
       THEN /\ runs' = [runs EXCEPT ![r] = Return("not found")]
            /\ docs' = docs
       ELSE /\ docs' = [docs EXCEPT ![r[1]] = MarkProcessing(@)]
            /\ runs' = [runs EXCEPT ![r].pc = "s3"]
    /\ UNCHANGED <<docChunks, points, collection, taskQueue, deliveries, view, queryVars, meetingVars, storeVars>>

\* upload_to_s3_if_configured never raises; the url is saved when there is one
UploadToS3(r) ==
    /\ runs[r].pc = "s3"
    /\ \E uploaded \in BOOLEAN :
        /\ docs' = IF uploaded THEN [docs EXCEPT ![r[1]].s3_url = TRUE] ELSE docs
        /\ runs' = [runs EXCEPT ![r].pc = "strategy", ![r].s3 = uploaded]
    /\ UNCHANGED <<docChunks, points, collection, taskQueue, deliveries, view, queryVars, meetingVars, storeVars>>

\* what the extraction of a strategy ends with: a cause it raises, or the text it extracted
ExtractionOutcomes(ext, file, s3) ==
    IF ext \notin ALLOWED_EXTENSIONS
    THEN { [err |-> "Unsupported file type: " \o ext, text |-> <<>>] }
    ELSE IF ext = ".txt"
    THEN IF Strip(Join(file)) = <<>>
         THEN { [err |-> "Empty text file", text |-> <<>>] }
         ELSE { [err |-> "none", text |-> file] }
    ELSE IF ext = ".mp3"
    THEN { [err |-> "AssemblyAI API key is not configured", text |-> <<>>] }
         \cup (IF ~s3
               THEN { [err |-> "Audio requires S3 upload or presigned URL for transcription",
                       text |-> <<>>] }
               ELSE { [err |-> "HTTPError", text |-> <<>>],
                      [err |-> "transcript error", text |-> <<>>],
                      [err |-> "Transcription failed", text |-> <<>>] }
                    \cup (IF Join(file) = <<>> THEN {}
                          ELSE { [err |-> "none", text |-> file] }))
    ELSE { [err |-> "unstructured library is required for PDF/DOC processing", text |-> <<>>],
           [err |-> "partition error", text |-> <<>>] }
         \cup (IF ChunkTranscript(file) = <<>>
               THEN { [err |-> "No readable content extracted from document", text |-> <<>>] }
               ELSE { [err |-> "none", text |-> ChunkTranscript(file)] })

\* get_strategy and strategy.process up to the chunking: raw_text and status are saved,
\* and the chunks computed
Extract(r) ==
    /\ runs[r].pc = "strategy"
    /\ \E o \in ExtractionOutcomes(docs[r[1]].ext, docs[r[1]].file, runs[r].s3) :
        IF o.err # "none"
        THEN /\ runs' = [runs EXCEPT ![r] = Raise(@, o.err)]
             /\ docs' = docs
        ELSE /\ docs' = [docs EXCEPT ![r[1]].raw_text = o.text, ![r[1]].status = "processing"]
             /\ runs' = [runs EXCEPT ![r].pc = "create", ![r].idx = 0,
                                     ![r].chunks = ChunkTranscript(o.text)]
    /\ UNCHANGED <<docChunks, points, collection, taskQueue, deliveries, view, queryVars, meetingVars, storeVars>>

\* _store_chunks, the loop: DocumentChunk.objects.create(document, chunk_text, chunk_index)
CreateChunk(r) ==
    /\ runs[r].pc = "create"
    /\ IF runs[r].idx < Len(runs[r].chunks)
       THEN /\ docChunks' = Append(docChunks,
                                   [document |-> r[1], chunk_index |-> runs[r].idx,
                                    chunk_text |-> runs[r].chunks[runs[r].idx + 1]])
            /\ runs' = [runs EXCEPT ![r].idx = @ + 1]
       ELSE /\ docChunks' = docChunks
            /\ runs' = [runs EXCEPT ![r].pc = StoreChunksThen("create")]
    /\ UNCHANGED <<docs, points, collection, taskQueue, deliveries, view, queryVars, meetingVars, storeVars>>

\* store_document_chunks_in_vector_db: ensure_collection_exists, then add_texts with the
\* ids derived from the document and the ordinals; an error of either is raised
StoreDocumentChunksInVectorDb(r) ==
    /\ runs[r].pc = "upsert"
    /\ \E ensured \in BOOLEAN, added \in BOOLEAN :
        IF ~ensured
        THEN /\ runs' = [runs EXCEPT ![r] = Raise(@, "vector index error")]
             /\ UNCHANGED <<points, collection>>
        ELSE /\ collection' = EnsureCollectionExists(collection)
             /\ IF ~added
                THEN /\ runs' = [runs EXCEPT ![r] = Raise(@, "embedding error")]
                     /\ points' = PointsAfterEnsure(collection, points)
                ELSE /\ runs' = [runs EXCEPT ![r].pc = StoreChunksThen("upsert")]
                     /\ points' = AddTexts(PointsAfterEnsure(collection, points),
                                           DocumentPoints(docs[r[1]].meeting, r[1],
                                                          runs[r].chunks))
    /\ UNCHANGED <<docs, docChunks, taskQueue, deliveries, view, queryVars, meetingVars, storeVars>>

\* _store_chunks, the end: embeddings_created_at = now; save
StampEmbeddings(r) ==
    /\ runs[r].pc = "stamp"
    /\ docs' = [docs EXCEPT ![r[1]].embeddings_created_at = TRUE]
    /\ runs' = [runs EXCEPT ![r].pc = StoreChunksThen("stamp")]
    /\ UNCHANGED <<docChunks, points, collection, taskQueue, deliveries, view, queryVars, meetingVars, storeVars>>

\* process_document_upload, lines 45-48
Complete(r) ==
    /\ runs[r].pc = "complete"
    /\ docs' = [docs EXCEPT ![r[1]] = MarkCompleted(@, Len(runs[r].chunks))]
    /\ runs' = [runs EXCEPT ![r] = Return("completed")]
    /\ UNCHANGED <<docChunks, points, collection, taskQueue, deliveries, view, queryVars, meetingVars, storeVars>>

\* process_document_upload, lines 56-61: the handler of every exception of the try block
HandleException(r) ==
    /\ runs[r].pc = "except"
    /\ docs' = [docs EXCEPT ![r[1]] = MarkFailed(@, runs[r].err)]
    /\ runs' = [runs EXCEPT ![r] = Return("failed")]
    /\ UNCHANGED <<docChunks, points, collection, taskQueue, deliveries, view, queryVars, meetingVars, storeVars>>

NextIngest ==
    \/ \E d \in Docs : UploadDocument(d)
    \/ \E d \in Docs : UploadDocumentQueued(d)
    \/ \E d \in Docs : Deliver(d)
    \/ \E r \in Runs : Begin(r)
    \/ \E r \in Runs : UploadToS3(r)
    \/ \E r \in Runs : Extract(r)
    \/ \E r \in Runs : CreateChunk(r)
    \/ \E r \in Runs : StoreDocumentChunksInVectorDb(r)
    \/ \E r \in Runs : StampEmbeddings(r)
    \/ \E r \in Runs : Complete(r)
    \/ \E r \in Runs : HandleException(r)

----------------------------------------------------------------------------
(* Meeting transcripts: upload_recording, prepare_meeting_for_rag and
   process_transcript_for_rag; similarity search *)

Rooms == {"m1", "m2"}

\* what the transcription of a recording yields, as the pieces the splitter can cut it
\* into: no text, one piece, two pieces around a blank one
RecordingTexts == { <<>>, << <<"c">> >>, << <<"c">>, <<SP>>, <<"d">> >> }

\* the statuses upload_recording can store with the transcript
TranscriptStatuses == {"not_started", "processing", "completed", "failed"}

NoTranscript == [text |-> <<>>, status |-> "not_started"]

NoRagState == [chunks_created_at |-> FALSE, embeddings_created_at |-> FALSE]

\* an execution of process_transcript_for_rag: the meeting, its position, its local
\* variables, and once it has returned what it returned
NoPrep ==
    [meeting |-> NoMeeting, pc |-> "none", chunks |-> <<>>, idx |-> 0, result |-> "none"]

\* return from process_transcript_for_rag
PrepReturn(meeting_id, result) ==
    [NoPrep EXCEPT !.meeting = meeting_id, !.pc = "done", !.result = result]

NoCall == [op |-> "none"]

\* uuid5(NAMESPACE_URL, f"meeting:{meeting_id}:{idx}")
MeetingVectorId(meeting_id, idx) == <<"meeting:", meeting_id, ":", ToString(idx)>>

\* the points store_chunks_in_vector_db upserts for the chunks of a transcript
MeetingPoints(meeting_id, chunks) ==
    { [id |-> MeetingVectorId(meeting_id, i - 1),
       meeting_id |-> meeting_id, document_id |-> NoneValue,
       chunk_index |-> i - 1, text |-> chunks[i], source_type |-> "meeting_transcript"]
      : i \in 1..Len(chunks) }

\* the TranscriptChunk rows of a meeting
TranscriptChunksOf(m) == SelectSeq(transcriptChunks, LAMBDA c: c.meeting = m)

InitMeeting ==
    /\ transcripts = [m \in Rooms |-> NoTranscript]
    /\ ragState = [m \in Rooms |-> NoRagState]
    /\ transcriptChunks = <<>>
    /\ prepQueue = {}
    /\ recordings = 0
    /\ preps = [k \in 1..MaxPreps |-> NoPrep]
    /\ call = NoCall

\* upload_recording: the transcript text and status are overwritten with the outcome of the
\* transcription; with a completed, non-empty transcript the processing task is enqueued
UploadRecording(m) ==
    /\ recordings < MaxRecordings
    /\ recordings' = recordings + 1
    /\ \E status \in TranscriptStatuses, text \in RecordingTexts :
        /\ status # "completed" => text = <<>>
        /\ transcripts' = [transcripts EXCEPT ![m] = [text |-> text, status |-> status]]
        /\ prepQueue' = IF status = "completed" /\ text # <<>>
                        THEN prepQueue \cup {m} ELSE prepQueue
    /\ UNCHANGED <<call, ragState, transcriptChunks, preps, queryVars, ingestVars, storeVars>>

\* a variant of AlreadyProcessed that never finds the meeting processed
AlreadyProcessedNever(rag_state) == FALSE

\* process_transcript_for_rag, line 406: the check that the meeting is processed already
AlreadyProcessed(rag_state) == rag_state.chunks_created_at /\ rag_state.embeddings_created_at

\* process_transcript_for_rag is entered, lines 397-411: by the task queue (at least once
\* per enqueued task), or by prepare_meeting_for_rag when the transcript is completed
PrepBegin(k, m) ==
    /\ preps[k].pc = "none"
    /\ \A j \in 1..(k - 1) : preps[j].pc # "none"
    /\ m \in prepQueue \/ transcripts[m].status = "completed"
    /\ preps' = [preps EXCEPT ![k] =
          IF transcripts[m].text = <<>>
          THEN PrepReturn(m, "No transcript text")
          ELSE IF AlreadyProcessed(ragState[m])
          THEN PrepReturn(m, "Already processed")
          ELSE [NoPrep EXCEPT !.meeting = m, !.pc = "create",
                              !.chunks = ChunkTranscript(transcripts[m].text)]]
    /\ UNCHANGED <<call, transcripts, ragState, transcriptChunks, prepQueue, recordings,
                   queryVars, ingestVars, storeVars>>

\* process_transcript_for_rag, lines 415-422: TranscriptChunk.objects.create(...)
PrepCreateChunk(k) ==
    /\ preps[k].pc = "create"
    /\ IF preps[k].idx < Len(preps[k].chunks)
       THEN /\ transcriptChunks' = Append(transcriptChunks,
                                          [meeting |-> preps[k].meeting,
                                           chunk_index |-> preps[k].idx,
                                           chunk_text |-> preps[k].chunks[preps[k].idx + 1]])
            /\ preps' = [preps EXCEPT ![k].idx = @ + 1]
       ELSE /\ transcriptChunks' = transcriptChunks
            /\ preps' = [preps EXCEPT ![k].pc = "upsert"]
    /\ UNCHANGED <<call, transcripts, ragState, prepQueue, recordings, queryVars, ingestVars, storeVars>>

\* store_chunks_in_vector_db: ensure_collection_exists, then add_texts with the ids derived
\* from the meeting and the ordinals; an error of either is raised, and caught by
\* process_transcript_for_rag, which returns it
StoreChunksInVectorDb(k) ==
    /\ preps[k].pc = "upsert"
    /\ \E ensured \in BOOLEAN, added \in BOOLEAN :
        IF ~ensured
        THEN /\ preps' = [preps EXCEPT ![k] = PrepReturn(@.meeting, "vector index error")]
             /\ UNCHANGED <<points, collection>>
        ELSE /\ collection' = EnsureCollectionExists(collection)
             /\ IF ~added
                THEN /\ preps' = [preps EXCEPT ![k] = PrepReturn(@.meeting, "embedding error")]
                     /\ points' = PointsAfterEnsure(collection, points)
                ELSE /\ preps' = [preps EXCEPT ![k].pc = "stamp"]
                     /\ points' = AddTexts(PointsAfterEnsure(collection, points),
                                           MeetingPoints(preps[k].meeting, preps[k].chunks))
    /\ UNCHANGED <<call, transcripts, ragState, transcriptChunks, prepQueue, recordings,
                   queryVars, docs, docChunks, taskQueue, deliveries, runs, view, storeVars>>

\* process_transcript_for_rag, lines 428-436: both timestamps are set and saved
PrepStamp(k) ==
    /\ preps[k].pc = "stamp"
    /\ ragState' = [ragState EXCEPT ![preps[k].meeting] =
                       [chunks_created_at |-> TRUE, embeddings_created_at |-> TRUE]]
    /\ preps' = [preps EXCEPT ![k] = PrepReturn(@.meeting, "processed")]
    /\ UNCHANGED <<call, transcripts, transcriptChunks, prepQueue, recordings,
                   queryVars, ingestVars, storeVars>>

\* the values of top_k the callers of the search pass, scaled to the size of the index
TopKs == {1, 2}

\* a variant of MatchesFilter that ignores the scope
MatchesFilterAnyScope(p, meeting_id) == TRUE

\* the filter of search_similar_chunks: none for a global search, else the payload field
\* meeting_id must match
MatchesFilter(p, meeting_id) == meeting_id # NoMeeting => p.meeting_id = meeting_id

\* the rankings of n distinct elements of S
Rankings(S, n) == { f \in [1..n -> S] : \A i, j \in 1..n : i # j => f[i] # f[j] }

\* the caller of a helper has taken what the call returned
Returned ==
    /\ call # NoCall
    /\ call' = NoCall
    /\ UNCHANGED <<transcripts, ragState, transcriptChunks, prepQueue, recordings, preps,
                   queryVars, ingestVars, storeVars>>

\* similarity_search_with_score: the k nearest of the points that pass the filter, nearest
\* first; which are nearest depends on the embeddings, so any ranking is possible
SimilaritySearch(pts, meeting_id, k) ==
    LET matching == { p \in pts : MatchesFilter(p, meeting_id) }
    IN  Rankings(matching, Min(k, Cardinality(matching)))

\* one formatted result of search_similar_chunks
FormatHit(p) ==
    [text |-> p.text, chunk_index |-> p.chunk_index, source_type |-> p.source_type,
     document_id |-> p.document_id, metadata |-> p]

\* a variant of SearchExcept that lets the error reach the caller
SearchExceptRaises(cause) == [result |-> <<>>, raised |-> cause]

\* search_similar_chunks, the except clause: the error is logged and [] returned
SearchExcept(cause) == [result |-> <<>>, raised |-> "none"]

\* search_similar_chunks(query, meeting_id, top_k): get_vectorstore (which ensures the
\* collection), the filter, the similarity search and the formatting, all inside one try
SearchSimilarChunks(meeting_id, top_k) ==
    /\ call = NoCall
    /\ \E failure \in {"none", "ensure error", "embedding error", "index error"} :
        LET pts == PointsAfterEnsure(collection, points)
            searched(outcome) ==
                [op |-> "search", meeting |-> meeting_id, top_k |-> top_k, err |-> failure,
                 result |-> outcome.result, raised |-> outcome.raised]
        IN  /\ IF failure = "ensure error"
               THEN UNCHANGED <<points, collection>>
               ELSE collection' = EnsureCollectionExists(collection) /\ points' = pts
            /\ IF failure # "none"
               THEN call' = searched(SearchExcept(failure))
               ELSE \E ranking \in SimilaritySearch(pts, meeting_id, top_k) :
                       call' = searched([result |-> [i \in 1..Len(ranking) |->
                                                        FormatHit(ranking[i])],
                                         raised |-> "none"])
    /\ UNCHANGED <<transcripts, ragState, transcriptChunks, prepQueue, recordings, preps,
                   queryVars, docs, docChunks, taskQueue, deliveries, runs, view, storeVars>>

NextMeeting ==
    \/ \E m \in Rooms : UploadRecording(m)
    \/ \E k \in 1..MaxPreps, m \in Rooms : PrepBegin(k, m)
    \/ \E k \in 1..MaxPreps : PrepCreateChunk(k)
    \/ \E k \in 1..MaxPreps : StoreChunksInVectorDb(k)
    \/ \E k \in 1..MaxPreps : PrepStamp(k)

\* the users that ask questions
Members == {"u1", "u2"}

\* the values of limit get_conversation_context is called with
Limits == {1, 2, MAX_CONVERSATION_TURNS}

\* _save_conversation_turn(meeting_id, user_id, query, assistant_response, relevant_chunks)
\* at the end of a question; the texts tell the turns apart
MemorySave(meeting_id, user_id) ==
    /\ call = NoCall
    /\ Len(history) < MaxTurns
    /\ \E saveOk \in BOOLEAN :
        history' = SaveConversationTurn(history, Len(history) + 1, meeting_id, user_id,
                                        <<"q", ToString(Len(history) + 1)>>,
                                        <<"a", ToString(Len(history) + 1)>>, <<>>, saveOk)
    /\ UNCHANGED <<apiKeySet, quota, nq, req, gen, worker, upSt, raw, yielded, fail, net,
                   genCalls, tokenQueue, parts, delivered, citations, raised,
                   ingestVars, meetingVars, storeVars>>

\* get_conversation_context(meeting_id, user_id, limit)
MemoryRead(meeting_id, user_id, limit) ==
    /\ call = NoCall
    /\ \E readOk \in BOOLEAN :
        call' = [op |-> "context", meeting |-> meeting_id, user |-> user_id,
                 limit |-> limit, readOk |-> readOk,
                 result |-> GetConversationContext(history, meeting_id, user_id, limit, readOk)]
    /\ UNCHANGED <<transcripts, ragState, transcriptChunks, prepQueue, recordings, preps,
                   queryVars, ingestVars, storeVars>>

NextMemory ==
    \/ \E m \in Rooms \cup {NoMeeting}, u \in Members : MemorySave(m, u)
    \/ \E m \in Rooms \cup {NoMeeting}, u \in Members, limit \in Limits : MemoryRead(m, u, limit)
    \/ Returned

NextSearch ==
    \/ \E m \in Rooms \cup {NoMeeting}, k \in TopKs : SearchSimilarChunks(m, k)
    \/ Returned

----------------------------------------------------------------------------
(* Two ingestion jobs in store_document_chunks_in_vector_db, with the requests of
   ensure_collection_exists to the vector store one by one *)

Jobs == {1, 2}

\* the chunks of the document each job ingests
JobPoints(j) ==
    IF j = 1 THEN DocumentPoints("m1", "d1", << <<"a">> >>)
             ELSE DocumentPoints("m1", "d2", << <<"b">> >>)

\* the collection and its vectors as a call of ensure_collection_exists finds them
Snapshot(c, pts) == [collection |-> c, points |-> pts]

\* a job: its position, which of the two calls of ensure_collection_exists it is in (the one
\* of the store function, then the one of get_vectorstore), what that call found at its
\* entry, whether it has deleted the collection, and once the job is over how it ended
NoJob ==
    [pc |-> "idle", entry |-> 0, before |-> Snapshot("absent", {}), recreated |-> FALSE,
     result |-> "none"]

\* return from store_document_chunks_in_vector_db, normally or by an exception
JobReturn(result) == [NoJob EXCEPT !.pc = "done", !.result = result]

InitStore == jobs = [j \in Jobs |-> NoJob]

\* a variant of SizeMismatch that finds every collection of the wrong size
SizeMismatchAlways(existing_size, desired_size) == TRUE

\* ensure_collection_exists, line 52
SizeMismatch(existing_size, desired_size) == existing_size # desired_size

\* a variant of CreateRejected in which the store rejects every creation
CreateRejectedAlways(c) == TRUE

\* create_collection is rejected by the store when the collection exists
CreateRejected(c) == c # "absent"

\* store_document_chunks_in_vector_db is entered and calls ensure_collection_exists
StoreBegin(j) ==
    /\ jobs[j].pc = "idle"
    /\ jobs' = [jobs EXCEPT ![j] = [NoJob EXCEPT !.pc = "get", !.entry = 1,
                                                 !.before = Snapshot(collection, points)]]
    /\ UNCHANGED <<points, collection, docs, docChunks, taskQueue, deliveries, runs, view,
                   queryVars, meetingVars>>

\* ensure_collection_exists, lines 49-52: get_collection raises when there is no collection
\* (control goes to the except clause); else the sizes are compared
GetCollection(j) ==
    /\ jobs[j].pc = "get"
    /\ jobs' = [jobs EXCEPT ![j].pc =
                  IF collection = "absent" THEN "create_except"
                  ELSE IF SizeMismatch(collection, EmbeddingDimension) THEN "delete"
                  ELSE "index"]
    /\ UNCHANGED <<points, collection, docs, docChunks, taskQueue, deliveries, runs, view,
                   queryVars, meetingVars>>

\* ensure_collection_exists, line 59: delete_collection removes the collection and its
\* vectors; when the collection is gone already the store either answers that nothing was
\* deleted or raises
DeleteCollection(j) ==
    /\ jobs[j].pc = "delete"
    /\ IF collection # "absent"
       THEN /\ collection' = "absent"
            /\ points' = {}
            /\ jobs' = [jobs EXCEPT ![j].pc = "create", ![j].recreated = TRUE]
       ELSE /\ UNCHANGED <<points, collection>>
            /\ \E raises \in BOOLEAN :
                  jobs' = [jobs EXCEPT ![j].pc = IF raises THEN "create_except" ELSE "create"]
    /\ UNCHANGED <<docs, docChunks, taskQueue, deliveries, runs, view, queryVars, meetingVars>>

\* ensure_collection_exists, lines 60-63 and 66-70: create_collection; the store rejects
\* the creation of a collection that exists, which inside the try leads to the except
\* clause and inside the except clause is raised to the caller
CreateCollection(j) ==
    /\ jobs[j].pc \in {"create", "create_except"}
    /\ IF ~CreateRejected(collection)
       THEN /\ collection' = EmbeddingDimension
            /\ points' = {}
            /\ jobs' = [jobs EXCEPT ![j].pc = "index"]
       ELSE /\ UNCHANGED <<points, collection>>
            /\ jobs' = [jobs EXCEPT ![j] = IF @.pc = "create"
                                           THEN [@ EXCEPT !.pc = "create_except"]
                                           ELSE JobReturn("create rejected")]
    /\ UNCHANGED <<docs, docChunks, taskQueue, deliveries, runs, view, queryVars, meetingVars>>

\* ensure_collection_exists, line 72, and its return: ensure_payload_indexes swallows its
\* errors; after the first call the job calls get_vectorstore, which calls it again
EnsurePayloadIndexes(j) ==
    /\ jobs[j].pc = "index"
    /\ jobs' = [jobs EXCEPT ![j] =
                  IF @.entry = 1
                  THEN [NoJob EXCEPT !.pc = "get", !.entry = 2,
                                     !.before = Snapshot(collection, points)]
                  ELSE [NoJob EXCEPT !.pc = "add", !.entry = 2]]
    /\ UNCHANGED <<points, collection, docs, docChunks, taskQueue, deliveries, runs, view,
                   queryVars, meetingVars>>

\* store_document_chunks_in_vector_db, line 208: add_texts upserts the vectors; the store
\* rejects it when the collection is not there or has another size
StoreAddTexts(j) ==
    /\ jobs[j].pc = "add"
    /\ IF collection = EmbeddingDimension
       THEN /\ points' = AddTexts(points, JobPoints(j))
            /\ jobs' = [jobs EXCEPT ![j] = JobReturn("stored")]
       ELSE /\ points' = points
            /\ jobs' = [jobs EXCEPT ![j] = JobReturn("add rejected")]
    /\ UNCHANGED <<collection, docs, docChunks, taskQueue, deliveries, runs, view,
                   queryVars, meetingVars>>

NextStore ==
    \/ \E j \in Jobs : StoreBegin(j)
    \/ \E j \in Jobs : GetCollection(j)
    \/ \E j \in Jobs : DeleteCollection(j)
    \/ \E j \in Jobs : CreateCollection(j)
    \/ \E j \in Jobs : EnsurePayloadIndexes(j)
    \/ \E j \in Jobs : StoreAddTexts(j)

----------------------------------------------------------------------------
(* Specifications *)

Init == InitQuery /\ InitIngest /\ InitMeeting /\ InitStore

\* the query path alone, over an index not yet created: the ingestion state stays as it is
InitSpecQuery == Init /\ collection = "absent"

SpecQuery == InitSpecQuery /\ [][NextQuery]_vars

\* a dialogue of two questions, one after the other, over an index not yet created
InitSpecDialog ==
    /\ quota = 2 /\ NoQueryYet
    /\ InitIngest /\ collection = "absent"
    /\ InitMeeting /\ InitStore

SpecDialog == InitSpecDialog /\ [][NextQuery]_vars

\* the streaming of an answer with the worker thread scheduled and a consumer that keeps
\* reading: neither is held up for ever while it can take a step
SpecStream ==
    /\ InitSpecQuery /\ [][NextQuery]_vars
    /\ WF_vars(Worker) /\ WF_vars(WorkerExcept) /\ WF_vars(WorkerFinally)
    /\ WF_vars(GeneratorThinking) /\ WF_vars(AsyncGeneratorGet) /\ WF_vars(GeneratorPull)

NextCancel == NextQuery \/ ConsumerStops

\* the streaming of an answer to a consumer that may stop reading, the worker thread
\* scheduled
SpecCancel ==
    /\ InitSpecQuery /\ [][NextCancel]_vars
    /\ WF_vars(Worker) /\ WF_vars(WorkerExcept) /\ WF_vars(WorkerFinally)

\* the conversation memory alone: turns are saved and contexts read
InitSpecMemory == Init /\ apiKeySet = TRUE /\ collection = "absent"

SpecMemory == InitSpecMemory /\ [][NextMemory]_vars

\* the ingestion path alone, with the generation credential configured: the query state
\* stays as it is
InitSpecIngest == Init /\ apiKeySet = TRUE

SpecIngest == InitSpecIngest /\ [][NextIngest]_vars

\* the state of the ingestion path once a two-chunk text document of meeting m1 has been
\* ingested by one execution of its task
DocumentIngestedRows ==
    /\ docs = [d \in Docs |->
                 [exists |-> TRUE, meeting |-> "m1", ext |-> ".txt",
                  file |-> << <<"a">>, <<SP>>, <<"b">> >>, status |-> "completed",
                  error_message |-> NoneValue, s3_url |-> FALSE,
                  raw_text |-> << <<"a">>, <<SP>>, <<"b">> >>,
                  processed_at |-> TRUE, embeddings_created_at |-> TRUE, chunk_count |-> 2]]
    /\ docChunks = << [document |-> "d1", chunk_index |-> 0, chunk_text |-> <<"a">>],
                      [document |-> "d1", chunk_index |-> 1, chunk_text |-> <<"b">>] >>
    /\ taskQueue = {"d1"}
    /\ deliveries = [d \in Docs |-> 1]
    /\ runs = [r \in Runs |-> IF r[2] = 1 THEN Return("completed") ELSE NoRun]
    /\ view = [d \in Docs |-> "done"]

\* the points of the ingested document
IngestedPoints == DocumentPoints("m1", "d1", << <<"a">>, <<"b">> >>)

DocumentIngested ==
    /\ DocumentIngestedRows
    /\ points = IngestedPoints
    /\ collection = EmbeddingDimension

\* the meeting transcripts alone: the query state and the documents stay as they are
InitSpecMeeting == Init /\ apiKeySet = TRUE

SpecMeeting == InitSpecMeeting /\ [][NextMeeting]_vars

\* the state of the transcripts once process_transcript_for_rag has processed, one meeting
\* after the other, the recording text[m] of every meeting of the set done
TranscriptsProcessed(done, text) ==
    LET order == IF done = Rooms THEN <<"m1", "m2">>
                 ELSE IF done = {} THEN <<>> ELSE <<CHOOSE m \in done : TRUE>>
        rows(m) == [i \in 1..Len(ChunkTranscript(text[m])) |->
                       [meeting |-> m, chunk_index |-> i - 1,
                        chunk_text |-> ChunkTranscript(text[m])[i]]]
    IN  /\ transcripts = [m \in Rooms |-> IF m \in done
                                          THEN [text |-> text[m], status |-> "completed"]
                                          ELSE NoTranscript]
        /\ ragState = [m \in Rooms |-> IF m \in done
                                       THEN [chunks_created_at |-> TRUE,
                                             embeddings_created_at |-> TRUE]
                                       ELSE NoRagState]
        /\ transcriptChunks = IF Len(order) = 0 THEN <<>>
                              ELSE IF Len(order) = 1 THEN rows(order[1])
                              ELSE rows(order[1]) \o rows(order[2])
        /\ prepQueue = done
        /\ recordings = Len(order)
        /\ preps = [k \in 1..MaxPreps |-> IF k <= Len(order)
                                          THEN PrepReturn(order[k], "processed") ELSE NoPrep]
        /\ call = NoCall

\* the points of the transcripts of TranscriptsProcessed
TranscriptPoints(done, text) ==
    UNION { MeetingPoints(m, ChunkTranscript(text[m])) : m \in done }

\* the search alone, over the index as ingestion and transcript processing leave it: new,
\* or holding the chunks of a document of m1 and of the transcripts of some meetings
InitSpecSearch ==
    /\ InitQuery /\ apiKeySet = TRUE /\ InitStore
    /\ \E done \in SUBSET Rooms, text \in [Rooms -> RecordingTexts \ {<<>>}],
          ingested \in BOOLEAN :
        /\ \A m \in Rooms \ done : text[m] = << <<"c">> >>
        /\ TranscriptsProcessed(done, text)
        /\ IF ingested THEN DocumentIngestedRows ELSE InitDocuments
        /\ points = (IF ingested THEN IngestedPoints ELSE {}) \cup TranscriptPoints(done, text)
        /\ collection \in IF ingested \/ done # {} THEN {EmbeddingDimension}
                          ELSE {"absent"} \cup VectorSizes

SpecSearch == InitSpecSearch /\ [][NextSearch]_vars

\* two ingestion jobs writing to the index at the same time, the collection absent, of
\* another size and holding vectors, or of the size of the model and holding vectors
InitSpecStore ==
    /\ InitQuery /\ apiKeySet = TRUE
    /\ InitDocuments /\ InitMeeting /\ InitStore
    /\ collection \in {"absent"} \cup VectorSizes
    /\ points = IF collection = "absent" THEN {} ELSE MeetingPoints("m2", << <<"c">> >>)

SpecStore == InitSpecStore /\ [][NextStore]_vars

Next ==
    NextQuery \/ NextIngest \/ NextMeeting \/ NextSearch \/ NextMemory \/ NextStore
        \/ ConsumerStops

Spec == Init /\ [][Next]_vars

----------------------------------------------------------------------------
(* Properties of the query path, checked under SpecQuery *)

\* the current query ran to its end: its caller got the answer or the exception
QueryEnded == nq > 0 /\ gen \in {"done", "raised"}

\* the turns persisted for the current query
TurnsOfQuery == { i \in 1..Len(history) : history[i].qid = nq }

Sentinels == {TIMEOUT_SENTINEL, ERROR_SENTINEL}

\* the fragments handed to the consumer after the "Thinking...\n" preamble
DeliveredFragments == IF delivered = <<>> THEN <<>> ELSE Tail(delivered)

\* the texts of the tokens waiting in the queue, without the stop marker
QueuedFragments ==
    LET tokens == SelectSeq(tokenQueue, LAMBDA it: it # stop_marker)
    IN  [i \in 1..Len(tokens) |-> tokens[i].text]

\* what the worker has put on the queue so far: the fragments it obtained from upstream, and
\* after an exception of the upstream its own sentinel
Enqueued ==
    yielded \o (IF upSt = "raised" /\ worker \in {"finally", "done"}
                THEN <<ERROR_SENTINEL>> ELSE <<>>)

\* C1: a query whose similarity search returns zero hits never enters the generation backend
\* (no call, no network request), raises nothing, and answers with the fixed no-information
\* message and an empty citation list, in each of the three entry points.
C1_NoHitsNoGeneration ==
    (nq > 0 /\ req.hits = <<>>) =>
        /\ genCalls = 0 /\ net = 0
        /\ gen = "done" /\ raised = "none"
        /\ Join(delivered) = NO_INFO
        /\ citations = <<>>
        /\ TurnsOfQuery = {}

C1_Witness == nq > 0 /\ req.hits = <<>> /\ req.mode = "async" /\ gen = "done"

\* C2 (as claimed): a streaming query that ran to its end on a backend response hands its
\* consumer the very text the blocking call returns for that response, and persists the turn
\* the blocking call persists for it (same question, answer and cited ordinals).
C2_StreamingEqualsBlocking ==
    (QueryEnded /\ req.mode \in {"stream", "async"} /\ req.hits # <<>> /\ fail = "none") =>
        /\ Join(delivered) = GoogleGenerate(raw)
        /\ \A i \in TurnsOfQuery :
            /\ history[i].user_question = req.query
            /\ history[i].assistant_response = GoogleGenerate(raw)
            /\ history[i].relevant_chunks = ChunkIndexes(req.hits)

\* C5 (as claimed): when the generation backend fails with a timeout or a transport error,
\* no turn is persisted for the query, whatever fragments arrived before the failure.
C5_NoPartialAnswerPersisted ==
    fail \in TransportFailures => TurnsOfQuery = {}

\* C6: when the backend call fails with a read timeout or another request error, the blocking
\* call raises that error to its caller and returns nothing, while a streaming call raises
\* nothing, hands over exactly one sentinel fragment, the one of that failure, as its last
\* fragment, and ends.
C6_TransportFailureSplit ==
    (QueryEnded /\ fail \in TransportFailures) =>
        IF req.mode = "sync"
        THEN gen = "raised" /\ raised = fail /\ delivered = <<>>
        ELSE /\ gen = "done" /\ raised = "none"
             /\ Cardinality({ i \in 1..Len(delivered) : delivered[i] \in Sentinels }) = 1
             /\ delivered[Len(delivered)] = Sentinel(fail)

C6_Witness ==
    /\ QueryEnded /\ req.mode = "async" /\ fail = "ReadTimeout"
    /\ delivered = <<THINKING, <<"a">>, TIMEOUT_SENTINEL>>

\* C7 (as claimed): with GOOGLE_API_KEY not configured, the caller of a query observes the
\* 'not configured' condition itself, and no network request is made.
C7_NotConfiguredIsDistinct ==
    (QueryEnded /\ fail = "NotConfigured") => (raised = "NotConfigured" /\ net = 0)

\* C8: in both streaming paths a turn of the current question exists only once the stream is
\* over: the upstream has ended, the worker has finished and the queue is empty, every
\* fragment was handed to the consumer, and the answer of the turn is the concatenation of
\* all those fragments.
C8_TurnSavedAfterLastFragment ==
    (req.mode \in {"stream", "async"} /\ TurnsOfQuery # {}) =>
        /\ gen = "done"
        /\ upSt \in {"closed", "raised"}
        /\ worker \in {"none", "done"} /\ tokenQueue = <<>>
        /\ delivered = <<THINKING>> \o Enqueued
        /\ \A i \in TurnsOfQuery : history[i].assistant_response = Join(Enqueued)

C8_Witness ==
    /\ req.mode = "async" /\ TurnsOfQuery # {}
    /\ Len(yielded) = MaxParts

\* C9: in stream_rag_response_async, at every point of every interleaving, the fragments the
\* consumer has received followed by the fragments waiting in the queue are exactly the
\* fragments the worker has put, in the order it obtained them; the stop marker is the last
\* item of the queue; and once the consumer has ended it has received them all.
C9_FragmentsInOrder ==
    req.mode = "async" =>
        /\ DeliveredFragments \o QueuedFragments = Enqueued
        /\ \A i \in 1..Len(tokenQueue) : tokenQueue[i] = stop_marker => i = Len(tokenQueue)
        /\ gen = "done" => DeliveredFragments = Enqueued

C9_Witness ==
    /\ req.mode = "async" /\ gen = "done"
    /\ Len(yielded) = MaxParts /\ yielded[1] # yielded[MaxParts]

----------------------------------------------------------------------------
(* Properties of the ingestion path, checked under SpecIngest *)

\* no execution of the task of document d is under way, and one at least has returned
IngestionsOver(d) ==
    /\ \A k \in 1..MaxDeliveries : runs[<<d, k>>].pc \in {"none", "done"}
    /\ \E k \in 1..MaxDeliveries : runs[<<d, k>>].pc = "done"

\* the executions of the task of document d that returned after completing
CompletedRuns(d) == { k \in 1..MaxDeliveries : runs[<<d, k>>].result = "completed" }

\* C3 (as claimed): once ingestion of a document has run to completion, once or several
\* times, with no failed execution, the document has as many chunk records as one ingestion
\* creates, and the index holds exactly the vector ids of those ordinals.
C3_ReingestionIdempotent ==
    \A d \in Docs :
        (IngestionsOver(d) /\ \A k \in 1..MaxDeliveries :
                                 runs[<<d, k>>].result \in {"none", "completed"}) =>
            /\ Len(ChunksOf(d)) = docs[d].chunk_count
            /\ VectorIdsOf(d) = { DocumentVectorId(d, i - 1) : i \in 1..docs[d].chunk_count }

\* the statuses from which automatic progression stops
TerminalStatuses == {"completed", "failed"}

\* C4 (as claimed): no step of an execution of process_document_upload changes the status of
\* a document that is completed or failed.
C4_TerminalStatusKept ==
    [][\A d \in Docs :
          (runs' # runs /\ docs[d].status \in TerminalStatuses) =>
              docs'[d].status = docs[d].status]_vars

\* C10: an execution of process_document_upload returns in one of two ways only: after
\* completing without an error, or through its exception handler, and then at its return the
\* document has status failed and the text of the cause as its error message. No cause of
\* the try block escapes the handler.
C10_ErrorsRecordedNotRaised ==
    [][\A r \in Runs :
          (runs[r].pc # "done" /\ runs'[r].pc = "done") =>
              \/ runs[r].pc = "start" /\ runs'[r].result = "not found"
              \/ /\ runs[r].pc = "complete" /\ runs[r].err = "none"
                 /\ runs'[r].result = "completed"
              \/ /\ runs[r].pc = "except" /\ runs[r].err # "none"
                 /\ runs'[r].result = "failed"
                 /\ docs'[r[1]].status = "failed"
                 /\ docs'[r[1]].error_message = runs[r].err]_vars

C10_Witness ==
    \E r \in Runs :
        /\ runs[r].result = "failed"
        /\ docs[r[1]].status = "failed"
        /\ docs[r[1]].error_message = "embedding error"
        /\ ChunksOf(r[1]) # <<>>

\* the causes AudioDocumentStrategy.process raises when the transcription did not complete:
\* the error the service reported, or the fixed text when it reported none
TranscriptionFailures == {"transcript error", "Transcription failed"}

\* C11: an execution whose audio transcription failed goes to the exception handler and
\* nowhere else: it creates no chunk record, makes no upsert and sets no timestamp, and at
\* its return the document has status failed. When it is the only execution for the
\* document, the document has no chunk record, no vector, no text and no timestamp.
C11_FailedTranscriptionStoresNothing ==
    /\ [](\A r \in Runs :
            runs[r].err \in TranscriptionFailures =>
                /\ runs[r].pc = "except"
                /\ deliveries[r[1]] = 1 =>
                      /\ ChunksOf(r[1]) = <<>> /\ VectorIdsOf(r[1]) = {}
                      /\ docs[r[1]].raw_text = <<>>
                      /\ ~docs[r[1]].embeddings_created_at)
    /\ [][\A r \in Runs :
            (runs[r].err \in TranscriptionFailures /\ runs'[r] # runs[r]) =>
                /\ runs'[r].result = "failed"
                /\ docs'[r[1]].status = "failed"
                /\ docChunks' = docChunks /\ points' = points
                /\ docs'[r[1]].embeddings_created_at = docs[r[1]].embeddings_created_at]_vars

C11_Witness ==
    \E d \in Docs :
        /\ deliveries[d] = 1 /\ runs[<<d, 1>>].result = "failed"
        /\ docs[d].ext = ".mp3" /\ docs[d].s3_url
        /\ docs[d].status = "failed" /\ docs[d].error_message = "transcript error"

\* C12 (as claimed): when an execution fails because the extension of the file is outside
\* the allow-list, nothing was done for the document before: no object-storage upload, no
\* transition to processing, no extracted text, no chunk record.
C12_UnsupportedExtensionFailsFast ==
    \A r \in Runs :
        (runs[r].pc = "except" /\ docs[r[1]].ext \notin ALLOWED_EXTENSIONS
            /\ deliveries[r[1]] = 1) =>
            /\ ~runs[r].s3 /\ ~docs[r[1]].s3_url
            /\ docs[r[1]].status # "processing"
            /\ docs[r[1]].raw_text = <<>>
            /\ ChunksOf(r[1]) = <<>>

\* the chunk records of document d hold every chunk of the list, under its ordinal
RowsCreated(d, chunks) ==
    \A i \in 1..Len(chunks) :
        \E j \in 1..Len(docChunks) :
            docChunks[j] = [document |-> d, chunk_index |-> i - 1, chunk_text |-> chunks[i]]

\* C13: the persist step creates the chunk records, then upserts, then stamps: an execution
\* at the upsert or beyond has created all its records; one at the stamp or beyond has its
\* points in the index; the timestamp of a document is set only when one of its executions
\* got past a successful upsert; and after an upsert that failed in the only execution the
\* records exist and the timestamp is unset.
C13_StoreChunksOrder ==
    \A d \in Docs :
        /\ \A k \in 1..MaxDeliveries :
            LET run == runs[<<d, k>>] IN
            /\ run.pc \in {"upsert", "stamp", "complete"} => RowsCreated(d, run.chunks)
            /\ run.pc \in {"stamp", "complete"} =>
                  DocumentPoints(docs[d].meeting, d, run.chunks) \subseteq points
            /\ run.pc = "complete" => docs[d].embeddings_created_at
        /\ docs[d].embeddings_created_at =>
              \E k \in 1..MaxDeliveries :
                  runs[<<d, k>>].pc = "complete" \/ runs[<<d, k>>].result = "completed"
        /\ (deliveries[d] = 1 /\ runs[<<d, 1>>].result = "failed"
               /\ docs[d].error_message \in {"vector index error", "embedding error"}) =>
              /\ ~docs[d].embeddings_created_at
              /\ RowsCreated(d, ChunkTranscript(docs[d].raw_text))

C13_Witness ==
    \E d \in Docs :
        /\ deliveries[d] = 1 /\ runs[<<d, 1>>].result = "failed"
        /\ docs[d].error_message = "embedding error"
        /\ Len(ChunksOf(d)) = 2 /\ ~docs[d].embeddings_created_at

\* the ordinals of the rows are 0..N-1, each once, and no row has an empty text
OrdinalsContiguous(rows) ==
    /\ \A i \in 1..Len(rows) :
          Cardinality({ j \in 1..Len(rows) : rows[j].chunk_index = i - 1 }) = 1
    /\ \A j \in 1..Len(rows) : rows[j].chunk_text # <<>>

\* C19 (as claimed): in every reachable state the chunk records of every document and of
\* every meeting transcript have the ordinals 0..N-1, each once, and a non-empty text.
C19_OrdinalsContiguous ==
    /\ \A d \in Docs : OrdinalsContiguous(ChunksOf(d))
    /\ \A m \in Rooms : OrdinalsContiguous(TranscriptChunksOf(m))

\* the choices of DocumentUpload.status
DocumentStatuses == {"uploaded", "processing", "completed", "failed"}

\* C22 (as claimed): in every reachable state the status of every document is one of
\* uploaded, processing, completed, failed, and the status of every transcript one of
\* not_started, processing, completed, failed.
C22_StatusesInRange ==
    /\ \A d \in Docs : docs[d].exists => docs[d].status \in DocumentStatuses
    /\ \A m \in Rooms :
          transcripts[m].status \in {"not_started", "processing", "completed", "failed"}

\* C26 (as claimed): once upload_document has returned and the one execution of the task of
\* a document has finished, the stored status of the document is the terminal status that
\* execution wrote.
C26_TaskStatusSurvivesView ==
    \A d \in Docs :
        ( /\ view[d] = "done"
          /\ runs[<<d, 1>>].result \in TerminalStatuses
          /\ \A k \in 2..MaxDeliveries : runs[<<d, k>>].pc = "none" ) =>
            docs[d].status = runs[<<d, 1>>].result

\* C27 (as claimed): in every reachable state a document with status completed has no error
\* message, has processed_at and embeddings_created_at set, and has a chunk_count equal to
\* the number of its chunk records.
C27_CompletedIsConsistent ==
    \A d \in Docs :
        docs[d].status = "completed" =>
            /\ docs[d].error_message = NoneValue
            /\ docs[d].processed_at
            /\ docs[d].embeddings_created_at
            /\ docs[d].chunk_count = Len(ChunksOf(d))

----------------------------------------------------------------------------
(* Properties of the processing of meeting transcripts, checked under SpecMeeting *)

\* the RAG state rs marks meeting m processed: both timestamps are set
MarkedProcessed(rs, m) == rs[m].chunks_created_at /\ rs[m].embeddings_created_at

\* the results with which process_transcript_for_rag reports success
PrepSuccesses == {"Already processed", "processed"}

\* execution k of process_transcript_for_rag is entered in this step, for meeting m
PrepEntered(k, m) == preps[k].pc = "none" /\ preps'[k].pc # "none" /\ preps'[k].meeting = m

C28_NoSecondSetOfChunks ==
    recordings <= 1 =>
        \A m \in Rooms :
            Len(TranscriptChunksOf(m)) <= Len(ChunkTranscript(transcripts[m].text))

\* the rows and the points of meeting m are those of one chunking of the text
IndexReflects(m, text, rows, pts) ==
    /\ [i \in 1..Len(rows) |-> rows[i].chunk_text] = ChunkTranscript(text)
    /\ { p \in pts : p.meeting_id = m /\ p.source_type = "meeting_transcript" }
         = MeetingPoints(m, ChunkTranscript(text))

\* C30 (as claimed): whenever process_transcript_for_rag reports success for a meeting,
\* which is then marked processed, the TranscriptChunk records and the vectors of the
\* meeting are the chunking of its current transcript text.
C30_IndexReflectsTranscript ==
    [][\A k \in 1..MaxPreps :
          (preps[k].pc # "done" /\ preps'[k].pc = "done"
             /\ preps'[k].result \in PrepSuccesses) =>
              /\ MarkedProcessed(ragState', preps'[k].meeting)
              /\ IndexReflects(preps'[k].meeting, transcripts'[preps'[k].meeting].text,
                               SelectSeq(transcriptChunks',
                                         LAMBDA c: c.meeting = preps'[k].meeting),
                               points')]_vars

----------------------------------------------------------------------------
(* Properties of the collection under one and two writers, checked under SpecStore *)

\* job j returns from a call of ensure_collection_exists in this step, and no other job
\* has entered the store function
EnsureReturnsAlone(j) ==
    /\ jobs[j].pc = "index" /\ jobs'[j].pc # "index"
    /\ \A o \in Jobs \ {j} : jobs[o].pc = "idle"

\* C21: when a call of ensure_collection_exists that no other writer overlaps returns
\* normally, the collection exists with the dimension of the embedding backend; the call
\* has deleted the collection only if it found one of another dimension, and a collection
\* it found with the right dimension is left as it was, with its vectors.
C21_EnsureContract ==
    [][\A j \in Jobs :
          EnsureReturnsAlone(j) =>
              /\ collection' = EmbeddingDimension
              /\ jobs[j].recreated =>
                    jobs[j].before.collection \in VectorSizes \ {EmbeddingDimension}
              /\ jobs[j].before.collection = EmbeddingDimension =>
                    /\ ~jobs[j].recreated
                    /\ points' = jobs[j].before.points]_vars

\* a job alone has come back from both calls over a collection that holds vectors
C21_Witness ==
    \E j \in Jobs :
        /\ jobs[j].pc = "add"
        /\ \A o \in Jobs \ {j} : jobs[o].pc = "idle"
        /\ collection = EmbeddingDimension
        /\ points = MeetingPoints("m2", << <<"c">> >>)

\* both jobs are over
JobsOver == \A j \in Jobs : jobs[j].pc = "done"

\* C25 (as claimed): when two ingestion jobs call ensure_collection_exists concurrently,
\* every interleaving ends with both jobs having upserted successfully and with the vectors
\* of both in the index.
C25_BothJobsSucceed ==
    JobsOver => \A j \in Jobs : jobs[j].result = "stored" /\ JobPoints(j) \subseteq points

\* C25 (amended): the create and recreate of two concurrent jobs are not protected against
\* each other. Every interleaving ends with the collection existing in the dimension of
\* the embedding backend and with at least one job having upserted successfully and its
\* vectors in the index; the other job may fail, or succeed and lose its vectors.
C25_OneJobSucceeds ==
    JobsOver =>
        /\ collection = EmbeddingDimension
        /\ \E j \in Jobs : jobs[j].result = "stored" /\ JobPoints(j) \subseteq points

\* both jobs are over, one has failed on the creation of the collection
C25_Witness ==
    /\ JobsOver
    /\ \E j \in Jobs : jobs[j].result = "create rejected"
    /\ \E j \in Jobs : jobs[j].result = "stored" /\ JobPoints(j) \subseteq points

----------------------------------------------------------------------------
(* Properties of the hand-off queue of stream_rag_response_async, checked under SpecStream
   and SpecCancel *)

\* the number of stop markers in the queue
MarkersQueued == Cardinality({ i \in 1..Len(tokenQueue) : tokenQueue[i] = stop_marker })

\* a streaming answer of stream_rag_response_async is under way or over
AsyncStream == req.mode = "async" /\ worker # "none"

\* C24: in stream_rag_response_async, whether the upstream ends normally, yields a sentinel
\* or raises, the worker puts the stop marker once, as the last thing it does; a consumer
\* that keeps reading receives it in the end and terminates, the queue empty; and the
\* marker is never handed to the consumer as a fragment.
C24_StopMarkerOnceAndLast ==
    /\ [](AsyncStream =>
            /\ MarkersQueued + (IF gen = "done" THEN 1 ELSE 0)
                 = (IF worker = "done" THEN 1 ELSE 0)
            /\ \A i \in 1..Len(tokenQueue) :
                  tokenQueue[i] = stop_marker => i = Len(tokenQueue)
            /\ \A i \in 1..Len(DeliveredFragments) :
                  DeliveredFragments[i] # stop_marker.text
            /\ Len(DeliveredFragments) + Len(QueuedFragments) = Len(Enqueued))
    /\ ((req.mode = "async" /\ worker = "loop")
           ~> (gen = "done" /\ worker = "done" /\ tokenQueue = <<>>))

\* the consumer has terminated on the marker after an upstream that raised
C24_Witness ==
    /\ AsyncStream /\ gen = "done" /\ worker = "done"
    /\ upSt = "raised" /\ Len(yielded) > 0

\* C29: when the consumer of a streaming answer stops reading before the stream has ended,
\* no turn is ever persisted for that question, and the worker of
\* stream_rag_response_async still runs the upstream call to its end and puts the marker.
C29_CancelledStreamNotPersisted ==
    /\ [](gen = "closed" => TurnsOfQuery = {})
    /\ [][gen = "closed" => gen' = "closed" /\ history' = history]_vars
    /\ ((req.mode = "async" /\ gen = "closed")
           ~> (worker = "done" /\ upSt \in {"closed", "raised"}
                 /\ tokenQueue # <<>> /\ tokenQueue[Len(tokenQueue)] = stop_marker))

\* the consumer stopped after a fragment, and the worker went on to the end of the upstream
C29_Witness ==
    /\ req.mode = "async" /\ gen = "closed" /\ worker = "done"
    /\ Len(delivered) > 1 /\ Len(yielded) = MaxParts /\ Len(tokenQueue) > 1
    /\ TurnsOfQuery = {}

----------------------------------------------------------------------------
(* Properties of a dialogue of two questions, checked under SpecDialog *)

\* C16: no step of a query made without a meeting changes the stored turns, whichever entry
\* point serves it.
C16_GlobalQueryNotPersisted ==
    [][(req'.mode # "none" /\ req'.meeting = NoMeeting) => history' = history]_vars

C16_Witness ==
    /\ nq = 2 /\ req.mode = "async" /\ req.meeting = NoMeeting
    /\ gen = "done" /\ req.save = "skipped"
    /\ Len(delivered) > 1 /\ Len(history) = 1

\* C17: for a question with hits, a failed read of the history gives an empty context, and
\* when the backend answers, the question ends with the answer and the citations handed to
\* the caller and no exception, whether or not the read or the save of the turn failed; a
\* failed save stores nothing.
C17_MemoryFailuresTolerated ==
    (nq > 0 /\ req.hits # <<>>) =>
        /\ ~req.readOk =>
              /\ req.context = <<>>
              /\ req.prompt = <<"SYSTEM:", "\n">> \o Strip(SystemPrompt(req.hits))
                                \o <<"\n", "\nUSER QUESTION:", "\n">> \o Strip(req.query)
                                \o <<"\n", "\nASSISTANT:">>
        /\ (QueryEnded /\ fail = "none") =>
              /\ gen = "done" /\ raised = "none"
              /\ genCalls = 1 /\ net = 1
              /\ citations = req.hits
              /\ delivered = IF req.mode = "sync" THEN <<GoogleGenerate(raw)>>
                              ELSE <<THINKING>> \o TextParts(raw)
              /\ req.save \in {"saved", "failed", "skipped"}
        /\ req.save = "failed" =>
              /\ gen = "done" /\ raised = "none" /\ TurnsOfQuery = {}
              /\ delivered # <<>> /\ citations = req.hits

C17_Witness ==
    /\ nq = 2 /\ Len(history) = 1 /\ history[1].user = req.user
    /\ ~req.readOk /\ req.context = <<>>
    /\ req.save = "failed" /\ req.mode = "async" /\ gen = "done"
    /\ delivered = <<THINKING, <<"a">>>>

\* the positions at which the text sub occurs in the text t
Find(sub, t) ==
    { i \in 1..(Len(t) - Len(sub) + 1) : SubSeq(t, i, i + Len(sub) - 1) = sub }

\* C18: when the second question of a user in a meeting is asked (with hits, the history
\* read without failure) and the turn of the first question is stored for that user and
\* meeting, the prompt of the second question has a conversation section that holds the
\* first question as a USER line, directly followed by its stored answer as an ASSISTANT
\* line, before the new question (texts without their surrounding blanks).
C18_SecondPromptHoldsFirstTurn ==
    \A t \in 1..Len(history) :
        (nq = 2 /\ history[t].qid = 1 /\ req.hits # <<>> /\ req.readOk
            /\ history[t].user = req.user /\ history[t].meeting = req.meeting) =>
            LET userLine == <<"\n", "USER", ": ">> \o Strip(history[t].user_question)
                assistantLine ==
                    <<"\n", "ASSISTANT", ": ">> \o Strip(history[t].assistant_response)
                question == <<"\n", "\nUSER QUESTION:", "\n">> \o Strip(req.query)
            IN  \E c \in Find(<<"\nCONVERSATION:">>, req.prompt),
                   i \in Find(userLine \o assistantLine, req.prompt),
                   k \in Find(question, req.prompt) :
                    c < i /\ i + Len(userLine) + Len(assistantLine) <= k

C18_Witness ==
    /\ nq = 2 /\ Len(history) = 2 /\ req.mode = "async" /\ gen = "done"
    /\ history[1].qid = 1 /\ history[1].assistant_response = <<SP, "a">>
    /\ req.readOk /\ history[1].meeting = req.meeting

----------------------------------------------------------------------------
(* Properties of the conversation memory, checked under SpecMemory *)

\* the turns of the history a context of (meeting_id, user_id) is drawn from
TurnsOf(meeting_id, user_id) ==
    { i \in 1..Len(history) :
        /\ history[i].user = user_id
        /\ meeting_id # NoMeeting => history[i].meeting = meeting_id }

\* the `limit` most recent of them
RecentTurns(meeting_id, user_id, limit) ==
    { i \in TurnsOf(meeting_id, user_id) :
        Cardinality({ k \in TurnsOf(meeting_id, user_id) : k > i }) < limit }

\* C15: a context read without failure holds exactly the min(limit, stored) most recent
\* turns of the user in the meeting (of the user in all meetings for a global read), and no
\* other turn; the turns come oldest first, each as the user entry with the question
\* followed by the assistant entry with the answer.
C15_ContextIsRecentTurns ==
    (call.op = "context" /\ call.readOk) =>
        LET all == TurnsOf(call.meeting, call.user)
            recent == RecentTurns(call.meeting, call.user, call.limit)
            n == Cardinality(recent)
        IN  /\ n = Min(call.limit, Cardinality(all))
            /\ Len(call.result) = 2 * n
            /\ \A i \in recent :
                  LET j == Cardinality({ k \in recent : k < i }) + 1
                  IN  /\ call.result[2 * j - 1] =
                            [role |-> "user", content |-> history[i].user_question]
                      /\ call.result[2 * j] =
                            [role |-> "assistant", content |-> history[i].assistant_response]

C15_Witness ==
    /\ call.op = "context" /\ call.readOk /\ call.limit = 2 /\ call.meeting = "m1"
    /\ Cardinality(TurnsOf(call.meeting, call.user)) = 2
    /\ Len(history) = MaxTurns /\ history[MaxTurns].user # call.user
    /\ Len(call.result) = 4

----------------------------------------------------------------------------
(* Properties of the similarity search, checked under SpecSearch *)

\* C14: whatever fails inside search_similar_chunks (ensuring the collection, embedding the
\* query, querying the index), the call returns the empty list and its caller observes no
\* exception.
C14_SearchErrorsSwallowed ==
    call.op = "search" =>
        /\ call.raised = "none"
        /\ call.err # "none" => call.result = <<>>

C14_Witness ==
    /\ call.op = "search" /\ call.err = "index error" /\ call.meeting = "m1"
    /\ call.result = <<>>
    /\ \E p \in points : p.meeting_id = "m1"

====
